---- MODULE Spec2Model ----
(***************************************************************************)
(* Model of src/5G.py: the 5G RF signal heatmap generator.                 *)
(*                                                                         *)
(* Python floats are modelled as exact rationals <<n, d>> in lowest terms  *)
(* with d > 0; IEEE rounding (and the float32 narrowing of Gf.Vec3f) is    *)
(* outside the model.  The draws of random.uniform are taken from small    *)
(* tables of values of the drawn interval, indexed by a per-pass seed and  *)
(* the running sample number.                                              *)
(***************************************************************************)
EXTENDS Integers, Sequences, FiniteSets, TLC

VARIABLES MAX_SIGNAL_RANGE, MIN_SIGNAL_RANGE, POINTS_PER_TOWER, POINT_SIZE,
          stage, vis, frame, raised, phase, call

vars == <<MAX_SIGNAL_RANGE, MIN_SIGNAL_RANGE, POINTS_PER_TOWER, POINT_SIZE,
          stage, vis, frame, raised, phase, call>>

progVars == <<MAX_SIGNAL_RANGE, MIN_SIGNAL_RANGE, POINTS_PER_TOWER, POINT_SIZE,
              stage, vis, frame, raised, phase>>

----------------------------------------------------------------------------
(* Exact rational arithmetic standing for Python float arithmetic.         *)

Abs(n) == IF n < 0 THEN -n ELSE n

RECURSIVE GCD(_, _)
GCD(a, b) == IF b = 0 THEN a ELSE GCD(b, a % b)

Norm(n, d) ==
    IF d = 1 THEN <<n, 1>>
    ELSE LET g == GCD(Abs(n), Abs(d))
         IN  IF d < 0 THEN <<(-n) \div g, (-d) \div g>>
                      ELSE <<n \div g, d \div g>>

R(n) == <<n, 1>>

RAdd(a, b) ==
    IF a[2] = b[2]
    THEN Norm(a[1] + b[1], a[2])
    ELSE LET l == (a[2] * b[2]) \div GCD(a[2], b[2])
         IN  Norm(a[1] * (l \div a[2]) + b[1] * (l \div b[2]), l)

RNeg(a) == <<-a[1], a[2]>>

RSub(a, b) == RAdd(a, RNeg(b))

RMul(a, b) ==
    IF a[2] = 1 /\ b[2] = 1
    THEN <<a[1] * b[1], 1>>
    ELSE LET g1 == GCD(Abs(a[1]), b[2])
             g2 == GCD(Abs(b[1]), a[2])
         IN  <<(a[1] \div g1) * (b[1] \div g2), (a[2] \div g2) * (b[2] \div g1)>>

\* a / b for b # 0 (the callers test the divisor, as Python's float division does)
RDiv(a, b) == RMul(a, Norm(b[2], b[1]))

RLt(a, b) == a[1] * b[2] < b[1] * a[2]

RLe(a, b) == a[1] * b[2] <= b[1] * a[2]

RMin(a, b) == IF RLt(b, a) THEN b ELSE a

RMax(a, b) == IF RLt(a, b) THEN b ELSE a

----------------------------------------------------------------------------
(* calculate_gradient_color, src/5G.py:119-156                             *)

Vec3f(x, y, z) == <<x, y, z>>

\* lines 141-147: the strength > 50 branch
StrongBranch(signal_strength) ==
    LET normalized == RDiv(RSub(signal_strength, R(50)), R(50))
    IN  Vec3f(RSub(R(1), normalized), R(1), R(0))

\* lines 148-154: the else branch
WeakBranch(signal_strength) ==
    LET normalized == RDiv(signal_strength, R(50))
    IN  Vec3f(R(1), normalized, R(0))

\* the gradient without the clamp of line 139
GradientColorNoClamp(signal_strength) ==
    IF RLt(R(50), signal_strength)
    THEN StrongBranch(signal_strength) ELSE WeakBranch(signal_strength)

calculate_gradient_color(signal_strength) ==
    LET s == RMax(R(0), RMin(R(100), signal_strength))
    IN  IF RLt(R(50), s) THEN StrongBranch(s) ELSE WeakBranch(s)

\* the recovery without the green zone of lines 317-319
SignalFromColorOneZone(color) == RMul(color[2], R(50))

\* lines 316-322: the statistics stage recovers the strength from a colour
SignalFromColor(color) ==
    LET r == color[1]
        g == color[2]
    IN  IF g = R(1) /\ RLt(r, R(1))
        THEN RAdd(R(50), RMul(RSub(R(1), r), R(50)))
        ELSE RMul(g, R(50))

----------------------------------------------------------------------------
(* calculate_signal_strength, src/5G.py:159-177.  The result is a record:  *)
(* exc is the exception the call raises ("none" when it returns) and val   *)
(* the returned value.                                                     *)

Returned(v) == [exc |-> "none", val |-> v]

Raises(e) == [exc |-> e, val |-> R(0)]

\* the interpolation of line 175 measured from min_distance instead
SignalStrengthRising(distance, max_distance, min_distance) ==
    LET d   == RMax(min_distance, RMin(max_distance, distance))
        den == RSub(max_distance, min_distance)
    IN  IF den = R(0)
        THEN Raises("ZeroDivisionError")
        ELSE Returned(RMax(R(0), RMin(R(100),
                 RDiv(RMul(R(100), RSub(d, min_distance)), den))))

calculate_signal_strength(distance, max_distance, min_distance) ==
    LET d   == RMax(min_distance, RMin(max_distance, distance))
        den == RSub(max_distance, min_distance)
    IN  IF den = R(0)
        THEN Raises("ZeroDivisionError")
        ELSE Returned(RMax(R(0), RMin(R(100),
                 RDiv(RMul(R(100), RSub(max_distance, d)), den))))

----------------------------------------------------------------------------
(* The scene (omni.usd stage).  A prim name is the sequence of its         *)
(* characters, so that `"Tower" in prim.GetName()` is a substring test.    *)

TowerToken == <<"T", "o", "w", "e", "r">>

\* line 204: "Tower" in prim.GetName()
Contains(sub, s) ==
    \E i \in 0..(Len(s) - Len(sub)) : SubSeq(s, i + 1, i + Len(sub)) = sub

Prim(name, xformable, visibility, trans) ==
    [name |-> name, xformable |-> xformable, visibility |-> visibility,
     trans |-> trans]

\* Two stages the script is run in: transformable towers next to a building,
\* and a tower next to a non-transformable prim that carries the token.
SceneChoices ==
    { << Prim(<<"T","o","w","e","r","_","A">>, TRUE, "inherited", <<0, 0, 0>>),
         Prim(<<"C","e","l","l","T","o","w","e","r","B">>, TRUE, "inherited",
              <<200, 100, 10>>),
         Prim(<<"B","u","i","l","d","i","n","g">>, TRUE, "inherited",
              <<50, 50, 0>>) >>,
      << Prim(<<"T","o","w","e","r","_","A">>, TRUE, "invisible", <<0, 0, 0>>),
         Prim(<<"T","o","w","e","r","M","a","t">>, FALSE, "inherited",
              <<0, 0, 0>>) >> }

\* line 215: the scanner raises the tower origin by 5.0
TowerRaise == 5

\* the scan without the visibility test of lines 209-210
ScanPrimAnyVisibility(prim) ==
    IF Contains(TowerToken, prim.name) /\ prim.xformable
    THEN << Vec3f(R(prim.trans[1]), R(prim.trans[2]),
                  RAdd(R(prim.trans[3]), R(TowerRaise))) >>
    ELSE <<>>

\* lines 203-215: one traversed prim's contribution to tower_positions
ScanPrim(prim) ==
    IF Contains(TowerToken, prim.name) /\ prim.xformable
    THEN IF prim.visibility = "invisible"
         THEN <<>>
         ELSE << Vec3f(R(prim.trans[1]), R(prim.trans[2]),
                       RAdd(R(prim.trans[3]), R(TowerRaise))) >>
    ELSE <<>>

RECURSIVE ScanFrom(_, _)
ScanFrom(stg, i) ==
    IF i > Len(stg) THEN <<>> ELSE ScanPrim(stg[i]) \o ScanFrom(stg, i + 1)

\* lines 196-216: stage.Traverse() in stage order
ScanTowers(stg) == ScanFrom(stg, 1)

----------------------------------------------------------------------------
(* The display prim at /World/Signal_Visualizer.                           *)

Unset == [set |-> FALSE, val |-> <<>>]

Attr(v) == [set |-> TRUE, val |-> v]

NoPrim == [exists |-> FALSE, visibility |-> "inherited",
           points |-> Unset, colors |-> Unset, widths |-> Unset]

FreshPrim == [exists |-> TRUE, visibility |-> "inherited",
              points |-> Unset, colors |-> Unset, widths |-> Unset]

\* line 188: stage.RemovePrim(vis_path)
RemovePrim(prim) == NoPrim

\* line 191: UsdGeom.Points.Define returns the prim at the path, creating it
\* when there is none
DefinePoints(prim) == IF prim.exists THEN prim ELSE FreshPrim

\* the setup without the RemovePrim of lines 187-188
SetupNoRemove(prim) == DefinePoints(prim)

\* lines 187-191
SetupPrim(prim) ==
    DefinePoints(IF prim.exists THEN RemovePrim(prim) ELSE prim)

----------------------------------------------------------------------------
(* Random draws.  random.uniform(a, b) is a value of [a, b]; the n-th draw *)
(* of a pass is read from a table of such values at an index fixed by the  *)
(* pass's seed.                                                            *)

\* number of seeds a pass may draw with
NumSeeds == 2

\* line 269 uniform(0, 2*pi): angles whose <<cos, sin>> are rational
AngleTable == << <<R(1), R(0)>>, <<Norm(3, 5), Norm(4, 5)>>, <<R(0), R(1)>>,
                 <<R(-1), R(0)>>, <<Norm(-4, 5), Norm(3, 5)>>, <<R(0), R(-1)>> >>

\* lines 272 and 290: uniform(-5, 5)
JitterTable == << R(-5), R(3), R(0), R(5), Norm(-5, 2) >>

\* line 293: uniform(-10, 10)
WideTable == << R(-10), R(4), R(10), R(0) >>

Draw(table, seed, n) == table[((seed + n) % Len(table)) + 1]

----------------------------------------------------------------------------
(* generate_heatmap, src/5G.py:180-354                                     *)

\* line 258
num_rings == 20

\* line 259
points_per_ring(points_per_tower) == points_per_tower \div num_rings

\* lines 263-264
RingDist(ring_idx, max_range, min_range) ==
    LET ring_progress == IF num_rings > 1
                         THEN Norm(ring_idx, num_rings - 1) ELSE R(0)
    IN  RAdd(min_range, RMul(RSub(max_range, min_range), ring_progress))

\* the jittered distance without the clamp of line 273
NoClampDist(d, max_range, min_range) == d

\* line 273
ClampDist(d, max_range, min_range) == RMax(min_range, RMin(max_range, d))

\* lines 268-299: the n-th sample of the pass (n counts from 0), on ring
\* ring_idx of the tower at origin
Sample(origin, ring_idx, n, seed, max_range, min_range) ==
    LET base_height == RSub(origin[3], R(TowerRaise))
        dist        == RingDist(ring_idx, max_range, min_range)
        angle       == Draw(AngleTable, seed, n)
        actual_dist == ClampDist(RAdd(dist, Draw(JitterTable, seed, n)),
                                 max_range, min_range)
        target_x    == RAdd(origin[1], RMul(actual_dist, angle[1]))
        target_y    == RAdd(origin[2], RMul(actual_dist, angle[2]))
        strength    == calculate_signal_strength(actual_dist, max_range, min_range)
        z_offset    == IF RLt(R(50), strength.val)
                       THEN RAdd(R(-25), Draw(JitterTable, seed, n + 1))
                       ELSE RAdd(R(-10), Draw(WideTable, seed, n))
    IN  IF strength.exc # "none"
        THEN [exc |-> strength.exc, point |-> Vec3f(R(0), R(0), R(0)),
              color |-> Vec3f(R(0), R(0), R(0))]
        ELSE [exc |-> "none",
              point |-> Vec3f(target_x, target_y, RAdd(base_height, z_offset)),
              color |-> calculate_gradient_color(strength.val)]

\* lines 251-299: the samples of all towers, in emission order
Samples(tower_positions, points_per_tower, seed, max_range, min_range) ==
    LET ppr      == points_per_ring(points_per_tower)
        perTower == num_rings * ppr
    IN  <<>> \o [k \in 1..(Len(tower_positions) * perTower) |->
                    Sample(tower_positions[((k - 1) \div perTower) + 1],
                           ((k - 1) % perTower) \div ppr,
                           k - 1, seed, max_range, min_range)]

\* lines 313-323: all_signals
AllSignals(final_colors) ==
    <<>> \o [k \in DOMAIN final_colors |-> SignalFromColor(final_colors[k])]

\* min(), max() and sum() of the slice seq[lo..hi], lo <= hi, by halves
RECURSIVE SeqMin(_, _, _)
SeqMin(seq, lo, hi) ==
    IF lo = hi THEN seq[lo]
    ELSE LET mid == (lo + hi) \div 2
         IN  RMin(SeqMin(seq, lo, mid), SeqMin(seq, mid + 1, hi))

RECURSIVE SeqMax(_, _, _)
SeqMax(seq, lo, hi) ==
    IF lo = hi THEN seq[lo]
    ELSE LET mid == (lo + hi) \div 2
         IN  RMax(SeqMax(seq, lo, mid), SeqMax(seq, mid + 1, hi))

RECURSIVE SeqSum(_, _, _)
SeqSum(seq, lo, hi) ==
    IF lo = hi THEN seq[lo]
    ELSE LET mid == (lo + hi) \div 2
         IN  RAdd(SeqSum(seq, lo, mid), SeqSum(seq, mid + 1, hi))

\* line 330
IsRed(s) == RLt(s, R(33))

\* the medium band of line 331 ending at 60
IsYellowTo60(s) == RLe(R(33), s) /\ RLt(s, R(60))

\* line 331
IsYellow(s) == RLe(R(33), s) /\ RLt(s, R(66))

\* line 332
IsGreen(s) == RLe(R(66), s)

\* line 330: sum(1 for s in all_signals if s < 33)
CountRed(seq) == Cardinality({k \in DOMAIN seq : IsRed(seq[k])})

\* line 331
CountYellow(seq) == Cardinality({k \in DOMAIN seq : IsYellow(seq[k])})

\* line 332
CountGreen(seq) == Cardinality({k \in DOMAIN seq : IsGreen(seq[k])})

NoStats == [computed |-> FALSE, min_signal |-> R(0), max_signal |-> R(0),
            avg_signal |-> R(0), red_count |-> 0, yellow_count |-> 0,
            green_count |-> 0, total_points |-> 0]

\* lines 325-334: the statistics of all_signals; min() of an empty list raises
Statistics(all_signals, total_points) ==
    IF total_points = 0
    THEN [exc |-> "ValueError", stats |-> NoStats]
    ELSE [exc |-> "none",
          stats |-> [computed     |-> TRUE,
                     min_signal   |-> SeqMin(all_signals, 1, total_points),
                     max_signal   |-> SeqMax(all_signals, 1, total_points),
                     avg_signal   |-> RDiv(SeqSum(all_signals, 1, total_points),
                                           R(total_points)),
                     red_count    |-> CountRed(all_signals),
                     yellow_count |-> CountYellow(all_signals),
                     green_count  |-> CountGreen(all_signals),
                     total_points |-> total_points]]

\* The locals of the last call of generate_heatmap.  branch is "none" before
\* the first call, "empty" for the zero-tower branch (line 226) and "towers"
\* for the else branch (line 239), whose locals are unbound otherwise.
NoFrame == [branch |-> "none", tower_positions |-> <<>>, points_per_tower |-> 0,
            max_range |-> R(0), min_range |-> R(0), point_size |-> R(0),
            stats |-> NoStats]

\* lines 226-237
EmptyBranch(prim) ==
    /\ vis' = [prim EXCEPT !.visibility = "invisible",
                           !.points = Attr(<<>>), !.colors = Attr(<<>>)]
    /\ frame' = [NoFrame EXCEPT !.branch = "empty"]
    /\ raised' = "none"

\* lines 246-248: the locals the else branch binds first
Locals(tower_positions) ==
    [NoFrame EXCEPT !.branch = "towers",
                    !.tower_positions = tower_positions,
                    !.points_per_tower = POINTS_PER_TOWER,
                    !.max_range = R(MAX_SIGNAL_RANGE),
                    !.min_range = R(MIN_SIGNAL_RANGE)]

\* the exception of the first sample that raises, "none" when none does
FirstException(samples) ==
    IF \A k \in DOMAIN samples : samples[k].exc = "none"
    THEN "none"
    ELSE samples[CHOOSE k \in DOMAIN samples :
                    /\ samples[k].exc # "none"
                    /\ \A j \in 1..(k - 1) : samples[j].exc = "none"].exc

\* lines 301-348: the writes and the statistics stage
WriteAndReport(shown, locals, samples) ==
    \E final_points \in {[k \in DOMAIN samples |-> samples[k].point]},
       final_colors \in {[k \in DOMAIN samples |-> samples[k].color]},
       widths_array \in {[k \in DOMAIN samples |-> R(POINT_SIZE)]} :
       \E st \in {Statistics(AllSignals(final_colors), Len(final_points))} :
          /\ vis' = [shown EXCEPT !.points = Attr(final_points),
                                  !.colors = Attr(final_colors),
                                  !.widths = Attr(widths_array)]
          /\ frame' = [locals EXCEPT !.point_size = R(POINT_SIZE),
                                     !.stats = st.stats]
          /\ raised' = st.exc

\* lines 239-348.  A sample that raises ends the call before anything is
\* written.
TowersBranch(prim, tower_positions, seed) ==
    \E shown \in {[prim EXCEPT !.visibility = "inherited"]},
       locals \in {Locals(tower_positions)},
       samples \in {Samples(tower_positions, POINTS_PER_TOWER, seed,
                            R(MAX_SIGNAL_RANGE), R(MIN_SIGNAL_RANGE))} :
       \E exc \in {FirstException(samples)} :
          IF exc # "none"
          THEN /\ vis' = shown
               /\ frame' = locals
               /\ raised' = exc
          ELSE WriteAndReport(shown, locals, samples)

\* generate_heatmap(): the whole call, with the seed of its random draws
generate_heatmap ==
    \E seed \in 0..(NumSeeds - 1) :
       \E prim \in {SetupPrim(vis)}, tower_positions \in {ScanTowers(stage)} :
          IF tower_positions = <<>>
          THEN EmptyBranch(prim)
          ELSE TowersBranch(prim, tower_positions, seed)

----------------------------------------------------------------------------
(* The user configuration block (lines 17-27), the sliders (lines 45-99)   *)
(* and the script's actions.                                               *)

\* Values of the configuration block: the shipped ones, an edited range with a
\* density below one point per ring and with an uneven density, and a block
\* edited to a maximum below the minimum.
ConfigChoices ==
    { [max |-> 150, min |-> 5, points |-> 400, size |-> 4],
      [max |-> 240, min |-> 12, points |-> 10, size |-> 4],
      [max |-> 240, min |-> 12, points |-> 25, size |-> 4],
      [max |-> 40, min |-> 50, points |-> 25, size |-> 4] }

\* line 48: FloatSlider(min=50, max=2000)
MaxSliderValues == {50}

\* line 62: FloatSlider(min=1, max=50)
MinSliderValues == {50}

\* line 76: IntSlider(min=100, max=4000)
PointsSliderValues == {100}

\* line 90: FloatSlider(min=1, max=10)
SizeSliderValues == {1}

NoCall == [fn |-> "none", args |-> <<>>, done |-> FALSE, ret |-> <<>>]

Init ==
    /\ \E c \in ConfigChoices :
          /\ MAX_SIGNAL_RANGE = c.max
          /\ MIN_SIGNAL_RANGE = c.min
          /\ POINTS_PER_TOWER = c.points
          /\ POINT_SIZE = c.size
    /\ stage \in SceneChoices
    /\ vis = NoPrim
    /\ frame = NoFrame
    /\ raised = "none"
    /\ phase = "load"
    /\ call = NoCall

\* line 365: the generation the script runs when it is loaded
InitialGeneration ==
    /\ phase = "load"
    /\ generate_heatmap
    /\ phase' = "ui"
    /\ UNCHANGED <<MAX_SIGNAL_RANGE, MIN_SIGNAL_RANGE, POINTS_PER_TOWER,
                   POINT_SIZE, stage, call>>

\* lines 104-106
on_refresh_clicked ==
    /\ phase = "ui"
    /\ generate_heatmap
    /\ UNCHANGED <<MAX_SIGNAL_RANGE, MIN_SIGNAL_RANGE, POINTS_PER_TOWER,
                   POINT_SIZE, stage, phase, call>>

\* lines 52-55
on_max_range_changed ==
    /\ phase = "ui"
    /\ \E v \in MaxSliderValues : MAX_SIGNAL_RANGE' = v
    /\ UNCHANGED <<MIN_SIGNAL_RANGE, POINTS_PER_TOWER, POINT_SIZE,
                   stage, vis, frame, raised, phase, call>>

\* lines 66-69
on_min_range_changed ==
    /\ phase = "ui"
    /\ \E v \in MinSliderValues : MIN_SIGNAL_RANGE' = v
    /\ UNCHANGED <<MAX_SIGNAL_RANGE, POINTS_PER_TOWER, POINT_SIZE,
                   stage, vis, frame, raised, phase, call>>

\* lines 80-83
on_points_changed ==
    /\ phase = "ui"
    /\ \E v \in PointsSliderValues : POINTS_PER_TOWER' = v
    /\ UNCHANGED <<MAX_SIGNAL_RANGE, MIN_SIGNAL_RANGE, POINT_SIZE,
                   stage, vis, frame, raised, phase, call>>

\* lines 94-97
on_size_changed ==
    /\ phase = "ui"
    /\ \E v \in SizeSliderValues : POINT_SIZE' = v
    /\ UNCHANGED <<MAX_SIGNAL_RANGE, MIN_SIGNAL_RANGE, POINTS_PER_TOWER,
                   stage, vis, frame, raised, phase, call>>

\* The user shows or hides a tower of the stage between passes (the
\* visibility the scanner reads at line 207).
SetTowerVisibility ==
    /\ \E i \in DOMAIN stage, v \in {"inherited", "invisible"} :
          /\ stage[i].xformable
          /\ Contains(TowerToken, stage[i].name)
          /\ stage[i].visibility # v
          /\ stage' = [stage EXCEPT ![i].visibility = v]
    /\ UNCHANGED <<MAX_SIGNAL_RANGE, MIN_SIGNAL_RANGE, POINTS_PER_TOWER,
                   POINT_SIZE, vis, frame, raised, phase, call>>

Next ==
    \/ InitialGeneration
    \/ on_refresh_clicked
    \/ on_max_range_changed
    \/ on_min_range_changed
    \/ on_points_changed
    \/ on_size_changed
    \/ SetTowerVisibility

Spec == Init /\ [][Next]_vars

----------------------------------------------------------------------------
(* The two pure functions and the statistics stage's recovery of a         *)
(* strength, applied to inputs of their domains.                           *)

\* strengths are probed in steps of 1 / MaxProbe
MaxProbe == 4

\* maxRange and minRange arguments (metres)
RangeInputs == {0, 1, 5, 50, 150}

\* distances: the range arguments, and points below, between and above them
DistanceInputs ==
    {R(n) : n \in RangeInputs \cup {-3, 27, 100, 400}}
        \cup {Norm(11, 2), Norm(2755, 19)}

\* strengths from -10 to 110 in steps of 1/MaxProbe, and the thirds
StrengthInputs ==
    {Norm(n, MaxProbe) : n \in (-10 * MaxProbe)..(110 * MaxProbe)}
        \cup {Norm(n, 3) : n \in 0..300}

Pending(fn, args) == [fn |-> fn, args |-> args, done |-> FALSE, ret |-> <<>>]

Done(fn, args, ret) == [fn |-> fn, args |-> args, done |-> TRUE, ret |-> ret]

\* the calls to make, one per behaviour
PendingCalls ==
    {Pending("calculate_signal_strength", <<d, R(mx), R(mn)>>) :
        d \in DistanceInputs, mx \in RangeInputs, mn \in RangeInputs}
    \cup {Pending("calculate_gradient_color", <<s>>) : s \in StrengthInputs}

InitFn ==
    /\ MAX_SIGNAL_RANGE = 240
    /\ MIN_SIGNAL_RANGE = 12
    /\ POINTS_PER_TOWER = 25
    /\ POINT_SIZE = 4
    /\ stage \in SceneChoices
    /\ vis = NoPrim
    /\ frame = NoFrame
    /\ raised = "none"
    /\ phase = "load"
    /\ call \in PendingCalls

CallSignalStrength ==
    /\ call.fn = "calculate_signal_strength" /\ ~call.done
    /\ call' = Done(call.fn, call.args,
                    calculate_signal_strength(call.args[1], call.args[2],
                                              call.args[3]))
    /\ UNCHANGED progVars

CallGradientColor ==
    /\ call.fn = "calculate_gradient_color" /\ ~call.done
    /\ call' = Done(call.fn, call.args, calculate_gradient_color(call.args[1]))
    /\ UNCHANGED progVars

\* lines 314-323 applied to the colour the call returned
CallSignalFromColor ==
    /\ call.fn = "calculate_gradient_color" /\ call.done
    /\ call' = Done("signal_from_color", <<call.args[1], call.ret>>,
                    SignalFromColor(call.ret))
    /\ UNCHANGED progVars

NextFn ==
    \/ CallSignalStrength
    \/ CallGradientColor
    \/ CallSignalFromColor

SpecFn == InitFn /\ [][NextFn]_vars

----------------------------------------------------------------------------
(* Properties.                                                             *)

Red == Vec3f(R(1), R(0), R(0))

Yellow == Vec3f(R(1), R(1), R(0))

Green == Vec3f(R(0), R(1), R(0))

Sq(a) == RMul(a, a)

Between(lo, x, hi) == RLe(lo, x) /\ RLe(x, hi)

TowerCount == Len(frame.tower_positions)

\* the tower the k-th emitted point belongs to (emission order, lines 251-299)
TowerOf(k) ==
    frame.tower_positions[((k - 1) \div (Len(vis.points.val) \div TowerCount)) + 1]

\* squared planar distance of the k-th emitted point from its tower
PlanarSq(k) ==
    LET p == vis.points.val[k]
        o == TowerOf(k)
    IN  RAdd(Sq(RSub(p[1], o[1])), Sq(RSub(p[2], o[2])))

\* no traversed prim has "Tower" in its name without being explicitly invisible
NoVisibleTowerNamed(stg) ==
    \A i \in DOMAIN stg :
        ~(Contains(TowerToken, stg[i].name) /\ stg[i].visibility # "invisible")

\* C1: with maxRange <= minRange a pass over at least one tower does not
\* divide by zero (it raises no ZeroDivisionError).
C1_DegenerateRangeDoesNotThrow ==
    (frame.branch = "towers" /\ RLe(frame.max_range, frame.min_range))
        => raised # "ZeroDivisionError"

\* C2: every pass with parameters the data model allows (maxRange > minRange
\* >= 0, pointsPerTower > 0), over any set of towers, ends without raising.
C2_ValidPassCompletes ==
    /\ frame.branch = "empty" => raised = "none"
    /\ (/\ frame.branch = "towers"
        /\ RLt(frame.min_range, frame.max_range)
        /\ RLe(R(0), frame.min_range)
        /\ frame.points_per_tower > 0)
           => raised = "none"

\* C3: a pass that starts with no visible tower-named prim in the stage leaves
\* the display prim hidden with empty point and colour arrays, and does not
\* raise, whatever the display held before.
C3_NoTowerHidesAndClears ==
    [][ (/\ UNCHANGED <<MAX_SIGNAL_RANGE, MIN_SIGNAL_RANGE, POINTS_PER_TOWER,
                        POINT_SIZE, stage>>
         /\ NoVisibleTowerNamed(stage))
            => (/\ vis'.exists
                /\ vis'.visibility = "invisible"
                /\ vis'.points = Attr(<<>>)
                /\ vis'.colors = Attr(<<>>)
                /\ raised' = "none") ]_vars

\* C3 witness: a zero-tower pass has run in a stage whose tower is hidden, and
\* the display is hidden and empty.
C3_Witness ==
    /\ frame.branch = "empty"
    /\ NoVisibleTowerNamed(stage)
    /\ \E i \in DOMAIN stage :
          /\ Contains(TowerToken, stage[i].name)
          /\ stage[i].xformable
          /\ stage[i].visibility = "invisible"
    /\ vis.visibility = "invisible"
    /\ vis.points = Attr(<<>>)

\* C4: after a pass over T >= 1 towers with pointsPerTower = P the display
\* holds T * (P - P mod 20) points, and never more than P * T.
C4_EmittedCount ==
    frame.branch = "towers" =>
        LET P == frame.points_per_tower
        IN  /\ Len(vis.points.val) = TowerCount * (P - (P % num_rings))
            /\ Len(vis.points.val) <= P * TowerCount

\* C5: when maxRange > minRange every emitted point lies at a planar distance
\* within [minRange, maxRange] of its tower and its strength is in [0, 100].
C5_PointsWithinRange ==
    (/\ frame.branch = "towers"
     /\ RLt(frame.min_range, frame.max_range)
     /\ vis.points.set)
        => \A k \in DOMAIN vis.points.val :
              /\ Between(Sq(frame.min_range), PlanarSq(k), Sq(frame.max_range))
              /\ Between(R(0), SignalFromColor(vis.colors.val[k]), R(100))

\* C5 witness: a pass with maxRange > minRange emitted a point clamped to
\* maxRange and a point clamped to minRange.
C5_Witness ==
    /\ frame.branch = "towers"
    /\ RLt(frame.min_range, frame.max_range)
    /\ vis.points.set
    /\ \E k \in DOMAIN vis.points.val : PlanarSq(k) = Sq(frame.max_range)
    /\ \E k \in DOMAIN vis.points.val : PlanarSq(k) = Sq(frame.min_range)

\* C6: for a strength s in [0, 100], the statistics stage's inverse mapping
\* applied to calculate_gradient_color(s) gives s back.
C6_RoundTrip ==
    (/\ call.fn = "signal_from_color"
     /\ Between(R(0), call.args[1], R(100)))
        => call.ret = call.args[1]

\* C6 witness: the round trip was made for a strength of the green zone.
C6_Witness ==
    /\ call.fn = "signal_from_color"
    /\ call.args[1] = Norm(200, 3)
    /\ call.args[2] = Vec3f(Norm(2, 3), R(1), R(0))

\* C7: the buckets weak (< 33), medium ([33, 66)) and strong (>= 66) partition
\* the strengths recovered from the emitted colours: each falls in exactly one
\* bucket and the three counts sum to the number of emitted points.
C7_BucketsPartition ==
    vis.colors.set =>
        LET all_signals == AllSignals(vis.colors.val)
        IN  /\ \A k \in DOMAIN all_signals :
                  /\ IsRed(all_signals[k]) \/ IsYellow(all_signals[k])
                        \/ IsGreen(all_signals[k])
                  /\ ~(IsRed(all_signals[k]) /\ IsYellow(all_signals[k]))
                  /\ ~(IsRed(all_signals[k]) /\ IsGreen(all_signals[k]))
                  /\ ~(IsYellow(all_signals[k]) /\ IsGreen(all_signals[k]))
            /\ CountRed(all_signals) + CountYellow(all_signals)
                  + CountGreen(all_signals) = Len(vis.points.val)
            /\ frame.stats.computed =>
                  /\ frame.stats.total_points = Len(vis.points.val)
                  /\ frame.stats.red_count + frame.stats.yellow_count
                        + frame.stats.green_count = frame.stats.total_points

\* C7 witness: the statistics of a pass count points in all three buckets.
C7_Witness ==
    /\ frame.stats.computed
    /\ frame.stats.red_count > 0
    /\ frame.stats.yellow_count > 0
    /\ frame.stats.green_count > 0

\* C8: for maxRange > minRange the strength is 100 at and below minRange and
\* 0 at and above maxRange.
C8_StrengthEndpoints ==
    (/\ call.fn = "calculate_signal_strength"
     /\ call.done
     /\ RLt(call.args[3], call.args[2]))
        => /\ call.ret.exc = "none"
           /\ RLe(call.args[1], call.args[3]) => call.ret.val = R(100)
           /\ RLe(call.args[2], call.args[1]) => call.ret.val = R(0)

\* C8 witness: the strength was computed at distance = minRange of a valid
\* range and is 100.
C8_Witness ==
    /\ call.fn = "calculate_signal_strength"
    /\ call.done
    /\ call.args = <<R(5), R(150), R(5)>>
    /\ call.ret = Returned(R(100))

\* C9: the gradient maps 0 (and below) to red, 50 to yellow and 100 (and
\* above) to green; both branches give yellow at 50, and around 50 the colour
\* is no further from yellow than the strength is from 50.
C9_GradientAnchors ==
    (call.fn = "calculate_gradient_color" /\ call.done)
        => LET s   == call.args[1]
               off == RDiv(IF RLt(s, R(50)) THEN RSub(R(50), s)
                                            ELSE RSub(s, R(50)), R(50))
           IN  /\ RLe(s, R(0)) => call.ret = Red
               /\ s = R(50) => call.ret = Yellow
               /\ RLe(R(100), s) => call.ret = Green
               /\ StrongBranch(R(50)) = Yellow
               /\ WeakBranch(R(50)) = Yellow
               /\ Between(R(0), s, R(100)) =>
                     /\ RLe(RSub(R(1), off), call.ret[1])
                     /\ RLe(RSub(R(1), off), call.ret[2])

\* C9 witness: the colour of strength 50 was computed and is yellow.
C9_Witness ==
    /\ call.fn = "calculate_gradient_color"
    /\ call.done
    /\ call.args[1] = R(50)
    /\ call.ret = Yellow

\* C10: once a pass has run, the display's points and colours have the same
\* length, and its widths are unset or empty, or as long as the points with
\* every entry the point size of that pass.
C10_DisplayArraysAgree ==
    frame.branch # "none" =>
        /\ Len(vis.points.val) = Len(vis.colors.val)
        /\ \/ Len(vis.widths.val) = 0
           \/ /\ frame.branch = "towers"
              /\ Len(vis.widths.val) = Len(vis.points.val)
              /\ \A k \in DOMAIN vis.widths.val :
                    vis.widths.val[k] = frame.point_size

\* C10 witness: after a change of the size slider a refresh wrote one width
\* per point, each the slider's size.
C10_Witness ==
    /\ phase = "ui"
    /\ frame.branch = "towers"
    /\ frame.point_size = R(1)
    /\ Len(vis.widths.val) > 0
    /\ Len(vis.widths.val) = Len(vis.points.val)
    /\ \A k \in DOMAIN vis.widths.val : vis.widths.val[k] = R(1)

====
